---- MODULE Spec2Model ----
(***************************************************************************)
(* Model of src/app.py, the Streamlit script of the contract compliance    *)
(* analyzer.  The script runs top to bottom once per user interaction; one *)
(* action of the model is one interaction followed by one whole run.       *)
(*                                                                         *)
(* Texts are sequences of chunks.  A chunk is a piece of text that the     *)
(* code never splits: one character ("a"; "bt" the backtick, "sp" the      *)
(* space, "nl" the newline), the word "json", or the text of one JSON      *)
(* document out of the table Docs (documents contain no backtick and do    *)
(* not start with "json", so str.replace on the real string and Replace on *)
(* the chunks agree).                                                      *)
(***************************************************************************)
EXTENDS Integers, Sequences, FiniteSets, TLC

\* ---------------------------------------------------------------- bounds
MaxCalls == 2
MaxFileLen == 3
MaxBodyLen == 3

\* ------------------------------------------------------------ JSON values
Obj(f) == [kind |-> "obj", fields |-> f]
Lst(s) == [kind |-> "list", items |-> s]
Str(s) == [kind |-> "str", s |-> s]
Num(n) == [kind |-> "num", n |-> n]

Null == [kind |-> "null"]

EmptyObj == Obj(<<>>)

\* Response documents the remote model can return, as text chunks.
Docs ==
  { "D_OK", "D_ZERO", "D_NOVIOL", "D_NOSUM", "D_VIOLNUM", "D_SEVERE",
    "D_LIST", "D_RISKNUM", "D_ENTRYSTR", "D_VIOLNULL" }

\* json.loads of one document text.
ParseDoc(d) ==
  CASE d = "D_OK" ->
         Obj("summary" :> Obj("criticalViolations" :> Num(1)
                               @@ "overallRisk" :> Str("HIGH"))
             @@ "violations" :> Lst(<< Obj("severity" :> Str("CRITICAL")
                                          @@ "title" :> Str("t")) >>))
    [] d = "D_ZERO" ->
         Obj("summary" :> Obj("overallRisk" :> Str("LOW"))
             @@ "violations" :> Lst(<< >>))
    [] d = "D_NOVIOL" ->
         Obj("summary" :> Obj("overallRisk" :> Str("LOW")))
    [] d = "D_NOSUM" ->
         Obj("violations" :> Lst(<< Obj("title" :> Str("t")) >>))
    [] d = "D_VIOLNUM" ->
         Obj("summary" :> EmptyObj @@ "violations" :> Num(5))
    [] d = "D_SEVERE" ->
         Obj("summary" :> Obj("overallRisk" :> Str("MEDIUM"))
             @@ "violations" :> Lst(<< Obj("severity" :> Str("MODERATE")),
                                      Obj("severity" :> Str("SEVERE")) >>))
    [] d = "D_LIST" -> Lst(<< >>)
    [] d = "D_RISKNUM" ->
         Obj("summary" :> Obj("overallRisk" :> Num(3))
             @@ "violations" :> Lst(<< >>))
    [] d = "D_ENTRYSTR" ->
         Obj("summary" :> EmptyObj @@ "violations" :> Lst(<< Str("x") >>))
    [] d = "D_VIOLNULL" ->
         Obj("summary" :> EmptyObj @@ "violations" :> Null)

\* ------------------------------------------------------- string functions
Whitespace == { "sp", "nl" }

RECURSIVE Replace(_, _)
\* str.replace(pat, ""): leftmost, non-overlapping occurrences removed.
Replace(s, pat) ==
  IF Len(s) < Len(pat) THEN s
  ELSE IF SubSeq(s, 1, Len(pat)) = pat
       THEN Replace(SubSeq(s, Len(pat) + 1, Len(s)), pat)
       ELSE << Head(s) >> \o Replace(Tail(s), pat)

RECURSIVE LStrip(_)
LStrip(s) ==
  IF s # << >> /\ Head(s) \in Whitespace THEN LStrip(Tail(s)) ELSE s

RECURSIVE RStrip(_)
RStrip(s) ==
  IF s # << >> /\ s[Len(s)] \in Whitespace
  THEN RStrip(SubSeq(s, 1, Len(s) - 1)) ELSE s

\* str.strip()
Strip(s) == RStrip(LStrip(s))

FenceJson == << "bt", "bt", "bt", "json" >>
Fence == << "bt", "bt", "bt" >>

\* Variant of clean_json that removes only the tagged opening marker.
clean_json_tagged_only(response_text) ==
  Strip(Replace(response_text, FenceJson))

\* Both fence markers are removed wherever they occur, then str.strip().
clean_json(response_text) ==
  Strip(Replace(Replace(response_text, FenceJson), Fence))

\* json.loads: leading and trailing whitespace is skipped, then exactly one
\* document must remain; anything else raises JSONDecodeError.
json_loads(text) ==
  LET t == Strip(text) IN
    IF Len(t) = 1 /\ t[1] \in Docs
    THEN [raised |-> FALSE, value |-> ParseDoc(t[1])]
    ELSE [raised |-> TRUE, value |-> EmptyObj]

\* ------------------------------------------------------- uploaded files
\* An uploaded file is its declared media type and its bytes.  A byte is
\* "a" (a letter), "blank" or "bad".  In a plain-text file "blank" is a space
\* and "bad" a byte that is not valid UTF-8.  PDF and word-processor files
\* are read by pypdf and python-docx: a file of zero bytes is not a valid
\* container and makes the reader raise, "bad" is a corrupt object that
\* makes it raise, and every other byte stands for one page (one paragraph)
\* whose text is "a", or which has no text when the byte is "blank".
TypePdf == "application/pdf"
TypeDocx == "application/vnd.openxmlformats-officedocument.wordprocessingml.document"
TypeTxt == "text/plain"
MediaTypes == { TypeTxt, TypePdf, TypeDocx }
Bytes == { "a", "blank", "bad" }

NoFile == [type |-> "none", bytes |-> << >>]

BytesUpTo(n) == UNION { [1..k -> Bytes] : k \in 0..n }

Files == [type : MediaTypes, bytes : BytesUpTo(MaxFileLen)]

Raise == [raised |-> TRUE, text |-> << >>]
Return(t) == [raised |-> FALSE, text |-> t]

HasBad(b) == \E i \in 1..Len(b) : b[i] = "bad"

RECURSIVE PdfText(_)
\* for page in reader.pages: if extracted: text += extracted + "\n"
PdfText(b) ==
  IF b = << >> THEN << >>
  ELSE (IF Head(b) = "a" THEN << "a", "nl" >> ELSE << >>) \o PdfText(Tail(b))

RECURSIVE DocxText(_)
\* "\n".join([para.text for para in doc.paragraphs])
DocxText(b) ==
  IF b = << >> THEN << >>
  ELSE (IF Head(b) = "a" THEN << "a" >> ELSE << >>)
       \o (IF Len(b) > 1 THEN << "nl" >> ELSE << >>)
       \o DocxText(Tail(b))

\* uploaded_file.getvalue().decode("utf-8")
DecodeUtf8(b) == [i \in 1..Len(b) |-> IF b[i] = "a" THEN "a" ELSE "sp"]

\* The body of the try block of read_file_content.
read_file_body(uploaded_file) ==
  IF uploaded_file.type = TypePdf
  THEN IF uploaded_file.bytes = << >> \/ HasBad(uploaded_file.bytes)
       THEN Raise
       ELSE Return(PdfText(uploaded_file.bytes))
  ELSE IF uploaded_file.type = TypeDocx
  THEN IF uploaded_file.bytes = << >> \/ HasBad(uploaded_file.bytes)
       THEN Raise
       ELSE Return(DocxText(uploaded_file.bytes))
  ELSE IF HasBad(uploaded_file.bytes)
       THEN Raise
       ELSE Return(DecodeUtf8(uploaded_file.bytes))

\* Variant of read_file_content without the except clause.
read_file_content_uncaught(uploaded_file) ==
  IF uploaded_file = NoFile
  THEN [text |-> << >>, error |-> FALSE, raised |-> FALSE]
  ELSE LET r == read_file_body(uploaded_file) IN
         [text |-> r.text, error |-> FALSE, raised |-> r.raised]

\* read_file_content: the extracted text, whether st.error was shown, and
\* whether an exception left the function.
read_file_content(uploaded_file) ==
  IF uploaded_file = NoFile
  THEN [text |-> << >>, error |-> FALSE, raised |-> FALSE]
  ELSE LET r == read_file_body(uploaded_file) IN
         IF r.raised
         THEN [text |-> << >>, error |-> TRUE, raised |-> FALSE]
         ELSE [text |-> r.text, error |-> FALSE, raised |-> FALSE]

\* ------------------------------------------------------------- display
\* dict.get(key, default)
Get(d, key, default) ==
  IF key \in DOMAIN d.fields THEN d.fields[key] ELSE default

\* not value
Falsy(v) ==
  \/ v.kind = "list" /\ v.items = << >>
  \/ v.kind = "obj" /\ DOMAIN v.fields = {}
  \/ v.kind = "str" /\ v.s = ""
  \/ v.kind = "num" /\ v.n = 0
  \/ v.kind = "null"

\* Whether enumerate(v) raises TypeError.
NotIterable(v) == v.kind \in { "num", "null" }

\* The elements enumerate(v) yields.  A list yields its items.  An object
\* yields its keys and a string its characters, which are all strings; the
\* display only needs to know that such an element is a string.
Elements(v) ==
  CASE v.kind = "list" -> v.items
    [] v.kind = "obj" -> IF DOMAIN v.fields = {} THEN << >> ELSE << Str("key") >>
    [] v.kind = "str" -> IF v.s = "" THEN << >> ELSE << Str("char") >>
    [] OTHER -> << >>

\* Icon chosen for a severity.
Icon(severity) ==
  IF severity = Str("CRITICAL") THEN "red"
  ELSE IF severity = Str("MODERATE") THEN "orange"
  ELSE "yellow"

\* One expander of the findings list: the icon and the severity caption.
Expander(v) ==
  LET severity == Get(v, "severity", Str("MINOR")) IN
    [icon |-> Icon(severity), caption |-> severity]

\* Index of the first element that is not an object, or Len + 1.
FirstNonObj(items) ==
  LET bad == { i \in 1..Len(items) : items[i].kind # "obj" } IN
    IF bad = {} THEN Len(items) + 1
    ELSE CHOOSE i \in bad : \A j \in bad : i <= j

\* str.lower() on the risk labels of the model.
Lower(s) ==
  CASE s = "HIGH" -> "high"
    [] s = "MEDIUM" -> "medium"
    [] s = "LOW" -> "low"
    [] OTHER -> s

NotShown ==
  [shown |-> FALSE, fault |-> FALSE, risk |-> Str(""), risk_class |-> << >>,
   no_violations |-> FALSE, expanders |-> << >>]

DisplayFault(risk, cls, info, exps) ==
  [shown |-> TRUE, fault |-> TRUE, risk |-> risk, risk_class |-> cls,
   no_violations |-> info, expanders |-> exps]

\* The display block for a stored analysis_result.
Render(data) ==
  IF data.kind # "obj" THEN DisplayFault(Str(""), << >>, FALSE, << >>)
  ELSE LET summary == Get(data, "summary", EmptyObj) IN
    IF summary.kind # "obj" THEN DisplayFault(Str(""), << >>, FALSE, << >>)
    ELSE LET risk == Get(summary, "overallRisk", Str("UNKNOWN")) IN
      IF risk.kind # "str" THEN DisplayFault(Str(""), << >>, FALSE, << >>)
      ELSE LET cls == IF Lower(risk.s) \in { "high", "medium", "low" }
                      THEN << "risk-", Lower(risk.s) >> ELSE << >>
               violations == Get(data, "violations", Lst(<< >>))
               info == Falsy(violations)
           IN
        IF NotIterable(violations) THEN DisplayFault(risk, cls, info, << >>)
        ELSE LET items == Elements(violations)
                 n == FirstNonObj(items)
                 exps == [i \in 1..(n - 1) |-> Expander(items[i])]
             IN IF n <= Len(items)
                THEN DisplayFault(risk, cls, info, exps)
                ELSE [shown |-> TRUE, fault |-> FALSE, risk |-> risk,
                      risk_class |-> cls, no_violations |-> info,
                      expanders |-> exps]

\* if "analysis_result" in st.session_state: ...
Display(ss) ==
  IF "analysis_result" \in DOMAIN ss THEN Render(ss["analysis_result"])
  ELSE NotShown

\* ------------------------------------------------------------ the session
VARIABLES
  api_key,        \* sidebar text input
  orane_file,     \* file uploader "orane"
  third_file,     \* file uploader "third"
  orane_edit,     \* what the user typed in the standard text area, if anything
  third_edit,     \* what the user typed in the third-party text area
  analyze_btn,    \* whether the button triggered the last run
  session_state,  \* st.session_state: key -> value
  client_call,    \* the remote call of the last run, if it made one
  callCount,      \* remote calls made so far
  notices,        \* st.error / st.warning messages of the last run
  rendered,       \* what the display block of the last run produced
  probe           \* input and result of a function applied on its own

vars ==
  << api_key, orane_file, third_file, orane_edit, third_edit, analyze_btn,
     session_state, client_call, callCount, notices, rendered, probe >>

\* Credentials and document texts are separate sets of values: what the user
\* uploads or types as a contract, and what the remote model answers, is
\* never the credential itself.
NoKey == ""
ApiKeys == { NoKey, "sk-ant-1" }

Unedited == [edited |-> FALSE, value |-> << >>]
Edited(t) == [edited |-> TRUE, value |-> t]
EditTexts == { << >>, << "a" >> }

\* Files uploaded in a session.
SessionFiles ==
  { [type |-> TypeTxt, bytes |-> << "a" >>],
    [type |-> TypePdf, bytes |-> << >>] }

\* st.text_area(value=...) has no key: its identity includes the default
\* value, so a typed value is kept only while the default stays the same.
KeepEdit(edit, old_default, new_default) ==
  IF new_default = old_default THEN edit ELSE Unedited

\* The value st.text_area returns.
TextArea(default, edit) == IF edit.edited THEN edit.value ELSE default

\* if file: content = read_file_content(file);
\*          if content != st.session_state.slot: st.session_state.slot = content
LoadSlot(ss, slot, file) ==
  IF file # NoFile
  THEN LET content == read_file_content(file).text IN
         IF content # ss[slot] THEN [ss EXCEPT ![slot] = content] ELSE ss
  ELSE ss

LoadNotices(file) ==
  IF file # NoFile /\ read_file_content(file).error THEN { "read_error" } ELSE {}

\* Variant of Validate that forgets the third-party text.
Validate_no_third(key, orane_text, third_text) ==
  IF key = NoKey THEN "need_key"
  ELSE IF orane_text = << >> THEN "need_text"
  ELSE "ok"

\* The validation in front of the remote call.
Validate(key, orane_text, third_text) ==
  IF key = NoKey THEN "need_key"
  ELSE IF orane_text = << >> \/ third_text = << >> THEN "need_text"
  ELSE "ok"

\* The f-string prompt: the fixed template around the two texts.
BuildPrompt(orane_text, third_text) ==
  << "PROMPT_TASK" >> \o orane_text \o << "PROMPT_THIRD" >> \o third_text
    \o << "PROMPT_SCHEMA" >>

NoCall == [made |-> FALSE]
Call(key, prompt, reply) ==
  [made |-> TRUE, api_key |-> key, prompt |-> prompt, reply |-> reply]

\* What client.messages.create and message.content[0].text can give: an
\* anthropic.APIError, any other exception, or the response text.
ApiError == [kind |-> "api_error", text |-> << >>]
OtherFault == [kind |-> "fault", text |-> << >>]
Text(t) == [kind |-> "text", text |-> t]

ResponseTexts ==
  { << d >> : d \in Docs }
    \cup { << "bt", "bt", "bt", "json", "nl", "D_OK", "nl", "bt", "bt", "bt" >>,
           << "bt", "bt", "bt", "nl", "D_ZERO", "nl", "bt", "bt", "bt" >>,
           << >>, << "a" >>, << "a", "D_OK" >> }

Replies == { ApiError, OtherFault } \cup { Text(t) : t \in ResponseTexts }

\* Variant of Store that keeps the credential next to the report.
Store_with_key(ss, analysis) ==
  ("analysis_result" :> Obj("api_key" :> Str(api_key) @@ "result" :> analysis))
    @@ ss

\* st.session_state.analysis_result = analysis
Store(ss, analysis) == ("analysis_result" :> analysis) @@ ss

\* The top-level shape of a finding report: an object with a summary and a
\* list of violations.
HasShape(v) ==
  /\ v.kind = "obj"
  /\ { "summary", "violations" } \subseteq DOMAIN v.fields
  /\ v.fields["violations"].kind = "list"

\* session state without its report.
Erase(ss) == [k \in DOMAIN ss \ { "analysis_result" } |-> ss[k]]

\* Variant of Analyze whose handlers drop the stored report.
Analyze_erasing(ss, reply) ==
  IF reply.kind = "api_error"
  THEN [ss |-> Erase(ss), notices |-> { "api_error" }, calls |-> 1]
  ELSE IF reply.kind = "fault"
  THEN [ss |-> Erase(ss), notices |-> { "unexpected_error" }, calls |-> 1]
  ELSE LET analysis == json_loads(clean_json(reply.text)) IN
         IF analysis.raised
         THEN [ss |-> Erase(ss), notices |-> { "json_error" }, calls |-> 1]
         ELSE [ss |-> Store(ss, analysis.value), notices |-> {}, calls |-> 1]

\* Variant of Analyze that rejects a parsed value without the report shape.
Analyze_validating(ss, reply) ==
  IF reply.kind = "api_error"
  THEN [ss |-> ss, notices |-> { "api_error" }, calls |-> 1]
  ELSE IF reply.kind = "fault"
  THEN [ss |-> ss, notices |-> { "unexpected_error" }, calls |-> 1]
  ELSE LET analysis == json_loads(clean_json(reply.text)) IN
         IF analysis.raised \/ ~HasShape(analysis.value)
         THEN [ss |-> ss, notices |-> { "json_error" }, calls |-> 1]
         ELSE [ss |-> Store(ss, analysis.value), notices |-> {}, calls |-> 1]

\* Variant of Analyze that calls the remote model a second time after an
\* API error.
Analyze_retrying(ss, reply) ==
  IF reply.kind = "api_error"
  THEN [ss |-> ss, notices |-> { "api_error" }, calls |-> 2]
  ELSE IF reply.kind = "fault"
  THEN [ss |-> ss, notices |-> { "unexpected_error" }, calls |-> 1]
  ELSE LET analysis == json_loads(clean_json(reply.text)) IN
         IF analysis.raised
         THEN [ss |-> ss, notices |-> { "json_error" }, calls |-> 1]
         ELSE [ss |-> Store(ss, analysis.value), notices |-> {}, calls |-> 1]

\* The try block and its handlers: the session state and the notices after
\* it, and the number of remote calls it made.
Analyze(ss, reply) ==
  IF reply.kind = "api_error"
  THEN [ss |-> ss, notices |-> { "api_error" }, calls |-> 1]
  ELSE IF reply.kind = "fault"
  THEN [ss |-> ss, notices |-> { "unexpected_error" }, calls |-> 1]
  ELSE LET analysis == json_loads(clean_json(reply.text)) IN
         IF analysis.raised
         THEN [ss |-> ss, notices |-> { "json_error" }, calls |-> 1]
         ELSE [ss |-> Store(ss, analysis.value), notices |-> {}, calls |-> 1]

\* One run of the script with the given widget values.
Run(key, ofile, tfile, oedit, tedit, btn, reply) ==
  LET ss1 == LoadSlot(session_state, "orane_text", ofile)
      oedit1 == KeepEdit(oedit, session_state["orane_text"], ss1["orane_text"])
      orane_text == TextArea(ss1["orane_text"], oedit1)
      ss2 == LoadSlot(ss1, "third_text", tfile)
      tedit1 == KeepEdit(tedit, session_state["third_text"], ss2["third_text"])
      third_text == TextArea(ss2["third_text"], tedit1)
      loaded == LoadNotices(ofile) \cup LoadNotices(tfile)
      check == Validate(key, orane_text, third_text)
      called == btn /\ check = "ok"
      done == Analyze(ss2, reply)
      ss3 == IF called THEN done.ss ELSE ss2
  IN
    /\ api_key' = key
    /\ orane_file' = ofile
    /\ third_file' = tfile
    /\ orane_edit' = oedit1
    /\ third_edit' = tedit1
    /\ analyze_btn' = btn
    /\ session_state' = ss3
    /\ client_call' =
         IF called
         THEN Call(key, BuildPrompt(orane_text, third_text), reply)
         ELSE NoCall
    /\ callCount' = IF called THEN callCount + done.calls ELSE callCount
    /\ notices' =
         loaded \cup (IF ~btn THEN {}
                      ELSE IF check # "ok" THEN { check }
                      ELSE done.notices)
    /\ rendered' = Display(ss3)
    /\ UNCHANGED probe

NoProbe == [fn |-> "none"]

\* The session after its first run: both text slots created empty, nothing
\* uploaded or typed, no report.
SessionInit ==
  /\ api_key = NoKey
  /\ orane_file = NoFile
  /\ third_file = NoFile
  /\ orane_edit = Unedited
  /\ third_edit = Unedited
  /\ analyze_btn = FALSE
  /\ session_state = ("orane_text" :> << >> @@ "third_text" :> << >>)
  /\ client_call = NoCall
  /\ callCount = 0
  /\ notices = {}
  /\ rendered = NotShown

Init == SessionInit /\ probe = NoProbe

\* The user types the credential in the sidebar.
EnterApiKey ==
  \E k \in ApiKeys :
    /\ k # api_key
    /\ Run(k, orane_file, third_file, orane_edit, third_edit, FALSE, ApiError)

\* The user uploads, replaces or removes the standard contract file.
UploadOrane ==
  \E f \in SessionFiles \cup { NoFile } :
    /\ f # orane_file
    /\ Run(api_key, f, third_file, orane_edit, third_edit, FALSE, ApiError)

\* The user uploads, replaces or removes the third-party contract file.
UploadThird ==
  \E f \in SessionFiles \cup { NoFile } :
    /\ f # third_file
    /\ Run(api_key, orane_file, f, orane_edit, third_edit, FALSE, ApiError)

\* The user types in the standard contract text area.
EditOrane ==
  \E t \in EditTexts :
    /\ t # TextArea(session_state["orane_text"], orane_edit)
    /\ Run(api_key, orane_file, third_file, Edited(t), third_edit, FALSE, ApiError)

\* The user types in the third-party contract text area.
EditThird ==
  \E t \in EditTexts :
    /\ t # TextArea(session_state["third_text"], third_edit)
    /\ Run(api_key, orane_file, third_file, orane_edit, Edited(t), FALSE, ApiError)

\* The user presses the analyze button.
ClickAnalyze ==
  /\ callCount < MaxCalls
  /\ \E reply \in Replies :
       Run(api_key, orane_file, third_file, orane_edit, third_edit, TRUE, reply)

Next ==
  \/ EnterApiKey
  \/ UploadOrane
  \/ UploadThird
  \/ EditOrane
  \/ EditThird
  \/ ClickAnalyze

Spec == Init /\ [][Next]_vars

session ==
  << api_key, orane_file, third_file, orane_edit, third_edit, analyze_btn,
     session_state, client_call, callCount, notices, rendered >>

\* ------------------------------------------- read_file_content on its own
NoResult == [text |-> << >>, error |-> FALSE, raised |-> FALSE]

InitExtract ==
  /\ SessionInit
  /\ probe \in { [fn |-> "read_file_content", file |-> f, done |-> FALSE,
                  result |-> NoResult] : f \in Files }

Extract ==
  /\ probe.fn = "read_file_content"
  /\ ~probe.done
  /\ probe' = [probe EXCEPT !.done = TRUE,
                            !.result = read_file_content(probe.file)]
  /\ UNCHANGED session

SpecExtract == InitExtract /\ [][Extract]_vars

\* ------------------------------------------ clean_json and json.loads alone
BodyChunks == { "bt", "json", "nl", "a", "D_OK", "D_LIST" }

Bodies == UNION { [1..k -> BodyChunks] : k \in 0..MaxBodyLen }

Wrappers == { "json", "json_nl", "plain", "plain_nl" }

\* The body between an opening and a closing fence marker, directly or with
\* the markers on lines of their own.
Wrap(w, body) ==
  CASE w = "json" -> FenceJson \o body \o Fence
    [] w = "json_nl" -> FenceJson \o << "nl" >> \o body \o << "nl" >> \o Fence
    [] w = "plain" -> Fence \o body \o Fence
    [] w = "plain_nl" -> Fence \o << "nl" >> \o body \o << "nl" >> \o Fence
    [] w = "bare" -> body

InitClean ==
  /\ SessionInit
  /\ probe \in { [fn |-> "clean_json", body |-> c, parsed |-> << >>] :
                 c \in Bodies }

ParseAs(w) ==
  /\ probe.fn = "clean_json"
  /\ w \notin DOMAIN probe.parsed
  /\ probe' = [probe EXCEPT !.parsed =
                 (w :> json_loads(clean_json(Wrap(w, probe.body)))) @@ @]
  /\ UNCHANGED session

ParseBare == ParseAs("bare")

ParseFenced == \E w \in Wrappers : ParseAs(w)

NextClean == ParseBare \/ ParseFenced

SpecClean == InitClean /\ [][NextClean]_vars

\* ---------------------------------------------------------------- claims
NoReport == [kind |-> "none"]

\* lastReport: the stored report, or the sentinel when there is none.
Report(ss) ==
  IF "analysis_result" \in DOMAIN ss THEN ss["analysis_result"] ELSE NoReport

\* The values the two text areas returned in the last run.
orane_text == TextArea(session_state["orane_text"], orane_edit)
third_text == TextArea(session_state["third_text"], third_edit)

FailureNotices == { "api_error", "json_error", "unexpected_error" }

\* The last run made the remote call and its try block failed.
AnalysisFailed == analyze_btn /\ client_call.made /\ notices \cap FailureNotices # {}

\* The outcome of cleaning and parsing the response of the last remote call.
LastParse == json_loads(clean_json(client_call.reply.text))

\* The last run made the remote call and the response parsed as JSON.
ResponseParsed ==
  /\ client_call.made
  /\ client_call.reply.kind = "text"
  /\ ~LastParse.raised

\* C1: a run whose analysis attempt fails (API error, response that is not
\* JSON, any other fault in the try block) leaves the stored report exactly
\* as it was before the run, present or absent.
C1_FailedAnalysisKeepsReport ==
  [][AnalysisFailed' => Report(session_state') = Report(session_state)]_vars

\* A re-analysis failed to parse its response while a report was stored.
C1_Witness ==
  /\ AnalysisFailed
  /\ "json_error" \in notices
  /\ "analysis_result" \in DOMAIN session_state

\* C2: when the button is pressed with no credential, or with an empty
\* standard or third-party text, the run makes no remote call and leaves the
\* stored report as it was; a run makes a remote call only when it was
\* triggered by the button with the credential and both texts non-empty.
C2_NoCallWithoutInputs ==
  [][/\ (analyze_btn' /\ (api_key' = NoKey \/ orane_text' = << >>
                           \/ third_text' = << >>))
        => /\ callCount' = callCount
           /\ client_call' = NoCall
           /\ Report(session_state') = Report(session_state)
     /\ (callCount' # callCount \/ client_call'.made)
        => /\ analyze_btn'
           /\ api_key' # NoKey
           /\ orane_text' # << >>
           /\ third_text' # << >>]_vars

\* The button was pressed with a credential and a standard text but an empty
\* third-party text, after a report had been stored.
C2_Witness ==
  /\ analyze_btn
  /\ api_key # NoKey
  /\ orane_text # << >>
  /\ third_text = << >>
  /\ "need_text" \in notices
  /\ callCount > 0
  /\ "analysis_result" \in DOMAIN session_state

KnownSeverities == { Str("CRITICAL"), Str("MODERATE"), Str("MINOR") }

\* The violation entries of a parsed response that carry a severity outside
\* the three known ones.
UnknownSeverityEntries(v) ==
  IF v.kind = "obj" /\ "violations" \in DOMAIN v.fields
     /\ v.fields["violations"].kind = "list"
  THEN { i \in 1..Len(v.fields["violations"].items) :
           LET e == v.fields["violations"].items[i] IN
             /\ e.kind = "obj"
             /\ "severity" \in DOMAIN e.fields
             /\ e.fields["severity"] \notin KnownSeverities }
  ELSE {}

\* C4: for every violation entry of an accepted response whose severity is
\* not CRITICAL, MODERATE or MINOR, the severity held in the stored report
\* and the severity shown for that violation are the fallback MINOR.
C4_UnknownSeverityIsMinor ==
  ResponseParsed =>
    \A i \in UnknownSeverityEntries(LastParse.value) :
      /\ Report(session_state) # NoReport
      /\ Report(session_state).fields["violations"].items[i].fields["severity"]
           = Str("MINOR")
      /\ i \in DOMAIN rendered.expanders
      /\ rendered.expanders[i].caption = Str("MINOR")

ZeroByte == probe.fn = "read_file_content" /\ probe.done /\ probe.file.bytes = << >>

\* C5 as stated: for each media kind, read_file_content on a zero-byte upload
\* returns the empty string, shows a warning, and lets no exception out.
C5_ZeroByteWarns ==
  ZeroByte =>
    /\ probe.result.text = << >>
    /\ probe.result.error
    /\ ~probe.result.raised

\* C5 amended: for each media kind, read_file_content on a zero-byte upload
\* returns the empty string and lets no exception out; it shows the error
\* for a PDF or word-processor upload and shows nothing for a plain-text one.
C5_ZeroByteEmpty ==
  ZeroByte =>
    /\ probe.result.text = << >>
    /\ ~probe.result.raised
    /\ probe.result.error <=> probe.file.type \in { TypePdf, TypeDocx }

\* read_file_content was applied to a zero-byte PDF.
C5_Witness ==
  /\ ZeroByte
  /\ probe.file.type = TypePdf
  /\ probe.result.error

AllParsed ==
  probe.fn = "clean_json" /\ DOMAIN probe.parsed = Wrappers \cup { "bare" }

RECURSIVE JsonStrings(_)
\* Every string inside a JSON value, keys included.
JsonStrings(v) ==
  CASE v.kind = "str" -> { v.s }
    [] v.kind = "list" -> UNION { JsonStrings(v.items[i]) : i \in 1..Len(v.items) }
    [] v.kind = "obj" ->
         DOMAIN v.fields \cup UNION { JsonStrings(v.fields[k]) : k \in DOMAIN v.fields }
    [] OTHER -> {}

TextChunks(t) == { t[i] : i \in 1..Len(t) }

\* C7: the session state has no slot but the two texts and the report, and
\* none of them contains the credential; a remote call is made with the
\* credential of the run that makes it.
C7_CredentialNotStored ==
  /\ DOMAIN session_state \subseteq { "orane_text", "third_text", "analysis_result" }
  /\ api_key # NoKey =>
       /\ api_key \notin TextChunks(session_state["orane_text"])
       /\ api_key \notin TextChunks(session_state["third_text"])
       /\ Report(session_state) # NoReport
            => api_key \notin JsonStrings(Report(session_state))
  /\ client_call.made => client_call.api_key = api_key

\* A credential was entered, both texts were loaded and a report was stored
\* by a call made with that credential.
C7_Witness ==
  /\ api_key # NoKey
  /\ session_state["orane_text"] # << >>
  /\ client_call.made
  /\ ResponseParsed
  /\ Report(session_state) # NoReport

C10_StoredReportRenders == ~rendered.fault

====
